---- MODULE Spec2Model ----
(***************************************************************************)
(* Smart Budget, Risk & Resilience Tracker (src/app.py).                   *)
(*                                                                         *)
(* The dashboard is a Streamlit script: every change of a widget reruns    *)
(* the script top to bottom, which recomputes every derived figure from    *)
(* the current widget values.  The state is the widget values together     *)
(* with the script's globals after the rerun (the record out).  One action *)
(* per widget: the new value and the whole rerun.                          *)
(*                                                                         *)
(* Numbers.  The widgets deliver integers (min_value=0 with integer        *)
(* steps); the script's divisions and the literal 1.2 make floats.  The    *)
(* floats are modelled as exact fractions [n |-> numerator, d |-> positive *)
(* denominator] and compared by cross-multiplication.  Every threshold of  *)
(* the script except one is compared against a correctly rounded quotient  *)
(* or against a double that the product reproduces exactly, so the exact   *)
(* comparison is the float comparison.  The exception is line 52,          *)
(* shocked_take_home >= 0.9 * total_expenses, when the two decimal values  *)
(* tie and 1.2 * tax is not an integer: there the binary rounding of the   *)
(* operands decides (4 - (1 + 1.2) < 0.9 * 2 but 3 - 1.2 >= 0.9 * 2).  The  *)
(* model takes either outcome (FloatGe), and the same outcome as the last  *)
(* rerun when the operands are the same (cmp52).                           *)
(*                                                                         *)
(* Tab 2 (the reflection answers and the Excel export, generate_excel)     *)
(* only reads the globals of tab 1 and is left out.                        *)
(***************************************************************************)
EXTENDS Integers, Sequences, FiniteSets

VARIABLES
    period,       \* st.radio "Budget Period"
    income,       \* st.number_input "{period} Income"
    expenses,     \* category -> amount, the six number_inputs
    basic, hra, allowance, variable, pf, tax, pt,   \* salary structure (annual)
    bonus_shock, tax_shock,                         \* the two checkboxes
    out,          \* the script's globals after the rerun
    cmp52,        \* what line 52's comparison with 0.9 * total_expenses gave
    probe         \* a direct call of one scoring function: [fn, args, ret]

inputs == <<period, income, expenses, basic, hra, allowance, variable, pf, tax, pt,
            bonus_shock, tax_shock>>
vars == <<inputs, out, cmp52, probe>>

----------------------------------------------------------------------------
(* Bounds of the explored values. *)

\* Spec: the amounts on the page add up to at most MaxTotal.
MaxTotal == 3

\* SpecShock: the largest value entered in each widget the session edits.
MaxIncome == 4
MaxHousing == 5
MaxOthers == 1
MaxBasic == 4
MaxVariable == 2
MaxTax == 2

\* SpecBudget: incomes 0..MaxBudgetIncome (and those of BudgetIncomes).
MaxBudgetIncome == 8

\* SpecGrade: scores from -ScoreMargin to 100 + ScoreMargin.
ScoreMargin == 10

\* SpecAdvisor: ratios within ProbeWindow steps of each threshold.
ProbeWindow == 1

Periods == {"Monthly", "Yearly"}

categories ==
    <<"Housing (Rent / EMI)", "Food", "Transport",
      "Utilities", "Lifestyle & Entertainment", "Others">>

CategorySet == {categories[k] : k \in 1..Len(categories)}

needs_categories == {"Housing (Rent / EMI)", "Food", "Utilities"}

wants_categories == {"Lifestyle & Entertainment"}

----------------------------------------------------------------------------
(* Exact fractions standing for the script's floats. *)
Q(n, d) == [n |-> n, d |-> d]

QInt(k) == Q(k, 1)

QLe(a, b) == a.n * b.d <= b.n * a.d
QLt(a, b) == a.n * b.d < b.n * a.d
QGe(a, b) == QLe(b, a)
QGt(a, b) == QLt(b, a)
QEq(a, b) == a.n * b.d = b.n * a.d

QAdd(a, b) == Q(a.n * b.d + b.n * a.d, a.d * b.d)
QSub(a, b) == Q(a.n * b.d - b.n * a.d, a.d * b.d)
QMin(a, b) == IF QLe(a, b) THEN a ELSE b

\* Python's round() of a float: to the nearest integer, a tie to the even one.
round(q) ==
    LET f == q.n \div q.d
        r == q.n - f * q.d
    IN  IF 2 * r < q.d THEN f
        ELSE IF 2 * r > q.d THEN f + 1
        ELSE IF f % 2 = 0 THEN f ELSE f + 1

----------------------------------------------------------------------------
(* SCORING FUNCTIONS *)

\* calculate_financial_health_score with expense_ratio < 70 for <= 70.
calculate_financial_health_score_lt(savings_rate, expense_ratio, needs_pct, wants_pct) ==
    LET s1 == QMin(Q(savings_rate.n * 40, savings_rate.d * 20), QInt(40))
        s2 == IF QLt(expense_ratio, QInt(70)) THEN 30
              ELSE IF QLe(expense_ratio, QInt(85)) THEN 15
              ELSE 5
        s3 == IF QLe(needs_pct, QInt(30)) THEN 10 ELSE 0
        s4 == IF QLe(wants_pct, QInt(30)) THEN 10 ELSE 0
        s5 == IF QGe(savings_rate, QInt(20)) THEN 10 ELSE 0
    IN  round(QAdd(s1, QInt(s2 + s3 + s4 + s5)))

calculate_financial_health_score(savings_rate, expense_ratio, needs_pct, wants_pct) ==
    LET s1 == QMin(Q(savings_rate.n * 40, savings_rate.d * 20), QInt(40))
        s2 == IF QLe(expense_ratio, QInt(70)) THEN 30
              ELSE IF QLe(expense_ratio, QInt(85)) THEN 15
              ELSE 5
        s3 == IF QLe(needs_pct, QInt(30)) THEN 10 ELSE 0
        s4 == IF QLe(wants_pct, QInt(30)) THEN 10 ELSE 0
        s5 == IF QGe(savings_rate, QInt(20)) THEN 10 ELSE 0
    IN  round(QAdd(s1, QInt(s2 + s3 + s4 + s5)))

\* AlignmentCoverage with the advisor's fallback 0.
AlignmentCoverage_zero(fixed_pay, needs) ==
    IF needs # 0 THEN Q(fixed_pay, needs) ELSE QInt(0)

\* line 39: coverage = fixed_pay / needs if needs else 1
AlignmentCoverage(fixed_pay, needs) ==
    IF needs # 0 THEN Q(fixed_pay, needs) ELSE QInt(1)

\* line 40
CoveragePoints(coverage) ==
    IF QGe(coverage, Q(12, 10)) THEN 40
    ELSE IF QGe(coverage, QInt(1)) THEN 30
    ELSE IF QGe(coverage, Q(8, 10)) THEN 15
    ELSE 5

\* VariablePoints with fallback 0 for gross = 0.
VariablePoints_zero(variable_pay, gross) ==
    LET var_ratio == IF gross # 0 THEN Q(variable_pay, gross) ELSE QInt(0)
    IN  IF QLe(var_ratio, Q(2, 10)) THEN 30
        ELSE IF QLe(var_ratio, Q(35, 100)) THEN 20
        ELSE IF QLe(var_ratio, Q(5, 10)) THEN 10
        ELSE 5

\* lines 42-43
VariablePoints(variable_pay, gross) ==
    LET var_ratio == IF gross # 0 THEN Q(variable_pay, gross) ELSE QInt(1)
    IN  IF QLe(var_ratio, Q(2, 10)) THEN 30
        ELSE IF QLe(var_ratio, Q(35, 100)) THEN 20
        ELSE IF QLe(var_ratio, Q(5, 10)) THEN 10
        ELSE 5

\* lines 45-46
SavingsPoints(savings, gross) ==
    LET sav_ratio == IF gross # 0 THEN Q(savings, gross) ELSE QInt(0)
    IN  IF QGe(sav_ratio, Q(25, 100)) THEN 30
        ELSE IF QGe(sav_ratio, Q(15, 100)) THEN 20
        ELSE IF QGe(sav_ratio, Q(1, 10)) THEN 10
        ELSE 5

calculate_ctc_budget_alignment_score(fixed_pay, variable_pay, needs, savings, gross) ==
    round(QInt(CoveragePoints(AlignmentCoverage(fixed_pay, needs))
               + VariablePoints(variable_pay, gross)
               + SavingsPoints(savings, gross)))

\* The outcomes of the float comparison x >= factor * k (line 52), x a float
\* that stands for the fraction x, k an integer.
FloatGe(x, factor, k) ==
    LET rhs == Q(factor.n * k, factor.d)
    IN  IF QGt(x, rhs) THEN {TRUE}
        ELSE IF QLt(x, rhs) THEN {FALSE}
        ELSE IF x.n % x.d = 0 THEN {TRUE}
        ELSE BOOLEAN

\* calculate_stress_test_score with shocked_savings >= 0 for > 0.
calculate_stress_test_score_ge0(total_expenses, shocked_take_home, normal_savings, shocked_savings, ge09) ==
    LET s1 == IF QGe(shocked_take_home, QInt(total_expenses)) THEN 40
              ELSE IF ge09 THEN 25
              ELSE 10
        s2 == IF QGe(shocked_savings, QInt(0)) THEN 30 ELSE 0
        ratio == Q(shocked_savings.n, shocked_savings.d * normal_savings)
        s3 == IF normal_savings > 0
              THEN IF QGe(ratio, Q(75, 100)) THEN 30
                   ELSE IF QGe(ratio, Q(5, 10)) THEN 20
                   ELSE IF QGe(ratio, Q(25, 100)) THEN 10
                   ELSE 5
              ELSE 5
    IN  round(QInt(s1 + s2 + s3))

\* ge09 is the outcome of shocked_take_home >= 0.9 * total_expenses.
calculate_stress_test_score(total_expenses, shocked_take_home, normal_savings, shocked_savings, ge09) ==
    LET s1 == IF QGe(shocked_take_home, QInt(total_expenses)) THEN 40
              ELSE IF ge09 THEN 25
              ELSE 10
        s2 == IF QGt(shocked_savings, QInt(0)) THEN 30
              ELSE IF QEq(shocked_savings, QInt(0)) THEN 15
              ELSE 0
        ratio == Q(shocked_savings.n, shocked_savings.d * normal_savings)
        s3 == IF normal_savings > 0
              THEN IF QGe(ratio, Q(75, 100)) THEN 30
                   ELSE IF QGe(ratio, Q(5, 10)) THEN 20
                   ELSE IF QGe(ratio, Q(25, 100)) THEN 10
                   ELSE 5
              ELSE 5
    IN  round(QInt(s1 + s2 + s3))

\* get_resilience_grade with score > 80 for >= 80.
get_resilience_grade_gt(score) ==
    IF score > 80 THEN "A"
    ELSE IF score >= 65 THEN "B"
    ELSE IF score >= 50 THEN "C"
    ELSE "D"

get_resilience_grade(score) ==
    IF score >= 80 THEN "A"
    ELSE IF score >= 65 THEN "B"
    ELSE IF score >= 50 THEN "C"
    ELSE "D"

base ==
    [A |-> <<"Maintain your savings discipline and continue tracking expenses.",
             "Increase long-term investments (PF, NPS, mutual funds).",
             "Build a 6-month emergency fund.">>,
     B |-> <<"Increase savings slightly to improve shock resilience.",
             "Reduce discretionary spending.",
             "Avoid using variable pay for fixed expenses.">>,
     C |-> <<"Reduce lifestyle expenses immediately.",
             "Ensure fixed expenses are covered by fixed income.",
             "Avoid reliance on bonuses for regular spending.">>,
     D |-> <<"Urgently reduce fixed commitments (rent, EMIs, subscriptions).",
             "Stop relying on variable pay for essentials.",
             "Begin emergency savings, even with small amounts.">>]

\* get_policy_recommendations_by_grade with the last two warnings swapped.
get_policy_recommendations_by_grade_swap(grade, expense_ratio, savings_rate, variable_ratio, fixed_coverage_ratio) ==
    LET r0 == base[grade]
        r1 == IF QGt(expense_ratio, QInt(85))
              THEN Append(r0, "Expense-to-income ratio is critically high.")
              ELSE r0
        r2 == IF QLt(savings_rate, QInt(10))
              THEN Append(r1, "Savings are very low. Target at least 10% initially.")
              ELSE r1
        r3 == IF QLt(fixed_coverage_ratio, QInt(1))
              THEN Append(r2, "Fixed income does not fully cover fixed needs.")
              ELSE r2
        r4 == IF QGt(variable_ratio, Q(35, 100))
              THEN Append(r3, "High dependence on variable pay increases risk.")
              ELSE r3
    IN  r4

get_policy_recommendations_by_grade(grade, expense_ratio, savings_rate, variable_ratio, fixed_coverage_ratio) ==
    LET r0 == base[grade]
        r1 == IF QGt(expense_ratio, QInt(85))
              THEN Append(r0, "Expense-to-income ratio is critically high.")
              ELSE r0
        r2 == IF QLt(savings_rate, QInt(10))
              THEN Append(r1, "Savings are very low. Target at least 10% initially.")
              ELSE r1
        r3 == IF QGt(variable_ratio, Q(35, 100))
              THEN Append(r2, "High dependence on variable pay increases risk.")
              ELSE r2
        r4 == IF QLt(fixed_coverage_ratio, QInt(1))
              THEN Append(r3, "Fixed income does not fully cover fixed needs.")
              ELSE r3
    IN  r4

----------------------------------------------------------------------------
(* TAB 1 - DASHBOARD: the script's globals, from the widget values. *)

RECURSIVE SumOver(_, _)
SumOver(e, S) ==
    IF S = {} THEN 0
    ELSE LET c == CHOOSE x \in S : TRUE
         IN  e[c] + SumOver(e, S \ {c})

\* x / income * 100 if income else 0
Percent(x, inc) == IF inc # 0 THEN Q(x * 100, inc) ELSE QInt(0)

\* ShockedTax with the factor 0.8.
ShockedTax_cut(t, shock) == IF shock THEN Q(t * 8, 10) ELSE QInt(t)

\* line 275: shocked_tax = tax * 1.2 if tax_shock else tax
ShockedTax(t, shock) == IF shock THEN Q(t * 12, 10) ELSE QInt(t)

\* line 274: shocked_variable = 0 if bonus_shock else variable
ShockedVariable(v, shock) == IF shock THEN 0 ELSE v

\* line 210
TotalExpenses(in) == SumOver(in.expenses, CategorySet)

\* lines 239, 274-276
ShockedTakeHome(in) ==
    QSub(QInt(in.basic + in.hra + in.allowance
              + ShockedVariable(in.variable, in.bonus_shock)),
         QAdd(QAdd(QInt(in.pf), ShockedTax(in.tax, in.tax_shock)), QInt(in.pt)))

\* in: the widget values.  The fields are the script's globals by name.
Dashboard(in, ge09) ==
    LET total_expenses == TotalExpenses(in)
        savings == in.income - total_expenses
        savings_rate == Percent(savings, in.income)
        expense_ratio == Percent(total_expenses, in.income)
        needs == SumOver(in.expenses, needs_categories)
        wants == SumOver(in.expenses, wants_categories)
        needs_pct == Percent(needs, in.income)
        wants_pct == Percent(wants, in.income)
        fixed_pay == in.basic + in.hra + in.allowance
        gross == fixed_pay + in.variable
        deductions == in.pf + in.tax + in.pt
        shocked_take_home == ShockedTakeHome(in)
        shocked_savings == QSub(shocked_take_home, QInt(total_expenses))
        alignment_score ==
            calculate_ctc_budget_alignment_score(fixed_pay, in.variable, needs, savings, gross)
        stress_score ==
            calculate_stress_test_score(total_expenses, shocked_take_home, savings,
                                        shocked_savings, ge09)
        resilience_grade == get_resilience_grade(stress_score)
        budget_score ==
            calculate_financial_health_score(savings_rate, expense_ratio, needs_pct, wants_pct)
        overall_score == round(Q(6 * budget_score + 4 * alignment_score, 10))
        variable_ratio == IF gross # 0 THEN Q(in.variable, gross) ELSE QInt(1)
        fixed_coverage_ratio == IF needs # 0 THEN Q(fixed_pay, needs) ELSE QInt(0)
    IN  [total_expenses |-> total_expenses,
         savings |-> savings,
         savings_rate |-> savings_rate,
         expense_ratio |-> expense_ratio,
         needs |-> needs,
         wants |-> wants,
         needs_pct |-> needs_pct,
         wants_pct |-> wants_pct,
         fixed_pay |-> fixed_pay,
         gross |-> gross,
         deductions |-> deductions,
         shocked_take_home |-> shocked_take_home,
         shocked_savings |-> shocked_savings,
         alignment_score |-> alignment_score,
         stress_score |-> stress_score,
         resilience_grade |-> resilience_grade,
         budget_score |-> budget_score,
         overall_score |-> overall_score,
         variable_ratio |-> variable_ratio,
         fixed_coverage_ratio |-> fixed_coverage_ratio,
         recommendations |->
             get_policy_recommendations_by_grade(resilience_grade, expense_ratio,
                 savings_rate, variable_ratio, fixed_coverage_ratio)]

\* The outcomes of line 52's second comparison for the widget values in.
Ge09(in) ==
    FloatGe(ShockedTakeHome(in), Q(9, 10), TotalExpenses(in))

\* The numbers line 52 compares are computed from these (lines 210, 274-276).
Operands52(in) ==
    <<in.basic + in.hra + in.allowance + ShockedVariable(in.variable, in.bonus_shock),
      in.pf, ShockedTax(in.tax, in.tax_shock), in.pt, TotalExpenses(in)>>

Widgets ==
    [period |-> period, income |-> income, expenses |-> expenses,
     basic |-> basic, hra |-> hra, allowance |-> allowance, variable |-> variable,
     pf |-> pf, tax |-> tax, pt |-> pt,
     bonus_shock |-> bonus_shock, tax_shock |-> tax_shock]

\* The widgets as the page first shows them.
Defaults ==
    [period |-> "Monthly", income |-> 0, expenses |-> [c \in CategorySet |-> 0],
     basic |-> 0, hra |-> 0, allowance |-> 0, variable |-> 0,
     pf |-> 0, tax |-> 0, pt |-> 0,
     bonus_shock |-> FALSE, tax_shock |-> FALSE]

NoProbe == [fn |-> "none", args |-> <<>>, ret |-> <<>>]

\* One run of the script with the widget values in.
Rerun(in) ==
    /\ period' = in.period
    /\ income' = in.income
    /\ expenses' = in.expenses
    /\ basic' = in.basic
    /\ hra' = in.hra
    /\ allowance' = in.allowance
    /\ variable' = in.variable
    /\ pf' = in.pf
    /\ tax' = in.tax
    /\ pt' = in.pt
    /\ bonus_shock' = in.bonus_shock
    /\ tax_shock' = in.tax_shock
    /\ \E ge09 \in (IF Operands52(in) = Operands52(Widgets) THEN {cmp52} ELSE Ge09(in)) :
          /\ cmp52' = ge09
          /\ out' = Dashboard(in, ge09)
    /\ UNCHANGED probe

Init ==
    /\ period = Defaults.period
    /\ income = Defaults.income
    /\ expenses = Defaults.expenses
    /\ basic = Defaults.basic
    /\ hra = Defaults.hra
    /\ allowance = Defaults.allowance
    /\ variable = Defaults.variable
    /\ pf = Defaults.pf
    /\ tax = Defaults.tax
    /\ pt = Defaults.pt
    /\ bonus_shock = Defaults.bonus_shock
    /\ tax_shock = Defaults.tax_shock
    /\ cmp52 \in Ge09(Defaults)
    /\ out = Dashboard(Defaults, cmp52)
    /\ probe = NoProbe

(* The widgets.  D is the set of values the session enters. *)
SetPeriod ==
    \E p \in Periods \ {period} : Rerun([Widgets EXCEPT !.period = p])

SetIncome(D) ==
    \E v \in D \ {income} : Rerun([Widgets EXCEPT !.income = v])

SetExpense(c, D) ==
    \E v \in D \ {expenses[c]} : Rerun([Widgets EXCEPT !.expenses[c] = v])

SetBasic(D) ==
    \E v \in D \ {basic} : Rerun([Widgets EXCEPT !.basic = v])

SetHra(D) ==
    \E v \in D \ {hra} : Rerun([Widgets EXCEPT !.hra = v])

SetAllowance(D) ==
    \E v \in D \ {allowance} : Rerun([Widgets EXCEPT !.allowance = v])

SetVariable(D) ==
    \E v \in D \ {variable} : Rerun([Widgets EXCEPT !.variable = v])

SetPf(D) ==
    \E v \in D \ {pf} : Rerun([Widgets EXCEPT !.pf = v])

SetTax(D) ==
    \E v \in D \ {tax} : Rerun([Widgets EXCEPT !.tax = v])

SetPt(D) ==
    \E v \in D \ {pt} : Rerun([Widgets EXCEPT !.pt = v])

ToggleBonusShock ==
    Rerun([Widgets EXCEPT !.bonus_shock = ~bonus_shock])

ToggleTaxShock ==
    Rerun([Widgets EXCEPT !.tax_shock = ~tax_shock])

----------------------------------------------------------------------------
(* Spec: the whole dashboard, every widget. *)

PageTotal ==
    income + SumOver(expenses, CategorySet)
    + basic + hra + allowance + variable + pf + tax + pt

\* The values a widget now holding x may take within MaxTotal.
Room(x) == 0..(MaxTotal - PageTotal + x)

SetAnyExpense == \E c \in CategorySet : SetExpense(c, Room(expenses[c]))

Next ==
    \/ SetPeriod
    \/ SetIncome(Room(income))
    \/ SetAnyExpense
    \/ SetBasic(Room(basic))
    \/ SetHra(Room(hra))
    \/ SetAllowance(Room(allowance))
    \/ SetVariable(Room(variable))
    \/ SetPf(Room(pf))
    \/ SetTax(Room(tax))
    \/ SetPt(Room(pt))
    \/ ToggleBonusShock
    \/ ToggleTaxShock

Spec == Init /\ [][Next]_vars

----------------------------------------------------------------------------
(* SpecShock: a session that edits the income, the rent, the other         *)
(* expenses, the basic pay, the variable pay, the income tax and the two   *)
(* shocks, and leaves the other widgets as they are.                       *)

NextShock ==
    \/ SetIncome(0..MaxIncome)
    \/ SetExpense("Housing (Rent / EMI)", 0..MaxHousing)
    \/ SetExpense("Others", 0..MaxOthers)
    \/ SetBasic(0..MaxBasic)
    \/ SetVariable(0..MaxVariable)
    \/ SetTax(0..MaxTax)
    \/ ToggleBonusShock
    \/ ToggleTaxShock

SpecShock == Init /\ [][NextShock]_vars

----------------------------------------------------------------------------
(* SpecBudget: a session that edits the income and the six expenses.  Each *)
(* expense is left at 0, set to a small amount (the six together make      *)
(* every total from 0 to 18) or set to the amount of the worked example.   *)
(* The incomes 10, 16 and 20 put totals exactly on the 70% and 85% bands   *)
(* and sums exactly halfway between two integers.                          *)

ExampleIncome == 50 * 1000

ExampleExpenses ==
    [c \in CategorySet |->
        CASE c = "Housing (Rent / EMI)" -> 15 * 1000
          [] c = "Food" -> 8 * 1000
          [] c = "Transport" -> 3 * 1000
          [] c = "Utilities" -> 2 * 1000
          [] c = "Lifestyle & Entertainment" -> 5 * 1000
          [] c = "Others" -> 2 * 1000]

SmallExpenses ==
    [c \in CategorySet |->
        CASE c = "Housing (Rent / EMI)" -> 1
          [] c = "Food" -> 2
          [] c = "Transport" -> 4
          [] c = "Utilities" -> 8
          [] c = "Lifestyle & Entertainment" -> 1
          [] c = "Others" -> 2]

BudgetIncomes == (0..MaxBudgetIncome) \cup {10, 16, 20, ExampleIncome}

BudgetAmounts(c) == {0, SmallExpenses[c], ExampleExpenses[c]}

SetBudgetExpense == \E c \in CategorySet : SetExpense(c, BudgetAmounts(c))

NextBudget ==
    \/ SetIncome(BudgetIncomes)
    \/ SetBudgetExpense

SpecBudget == Init /\ [][NextBudget]_vars

----------------------------------------------------------------------------
(* SpecGrade, SpecAdvisor: the two pure functions of the advisor called    *)
(* directly, with arguments the dashboard may never pass.                  *)

Grades == {"A", "B", "C", "D"}

ProbeScores == (0 - ScoreMargin)..(100 + ScoreMargin)

CallGrade ==
    /\ \E score \in ProbeScores :
          probe' = [fn |-> "get_resilience_grade",
                    args |-> <<score>>,
                    ret |-> get_resilience_grade(score)]
    /\ UNCHANGED <<inputs, out, cmp52>>

NextGrade == CallGrade

SpecGrade == Init /\ [][NextGrade]_vars

\* The fractions n/den within ProbeWindow steps of center/den.
Around(center, den) ==
    {Q(n, den) : n \in (center - ProbeWindow)..(center + ProbeWindow)}

CallAdvisor ==
    /\ \E grade \in Grades, expense_ratio \in Around(85, 1),
          savings_rate \in Around(10, 1), variable_ratio \in Around(35, 100),
          fixed_coverage_ratio \in Around(100, 100) :
          probe' = [fn |-> "get_policy_recommendations_by_grade",
                    args |-> <<grade, expense_ratio, savings_rate, variable_ratio,
                               fixed_coverage_ratio>>,
                    ret |-> get_policy_recommendations_by_grade(grade, expense_ratio,
                                savings_rate, variable_ratio, fixed_coverage_ratio)]
    /\ UNCHANGED <<inputs, out, cmp52>>

NextAdvisor == CallAdvisor

SpecAdvisor == Init /\ [][NextAdvisor]_vars

----------------------------------------------------------------------------
(* The claims. *)

Range(seq) == {seq[k] : k \in 1..Len(seq)}

Abs(x) == IF x < 0 THEN 0 - x ELSE x

GradeRank(g) ==
    CASE g = "D" -> 0
      [] g = "C" -> 1
      [] g = "B" -> 2
      [] g = "A" -> 3

AllZero ==
    /\ income = 0
    /\ \A c \in CategorySet : expenses[c] = 0
    /\ basic = 0 /\ hra = 0 /\ allowance = 0 /\ variable = 0
    /\ pf = 0 /\ tax = 0 /\ pt = 0
    /\ ~bonus_shock /\ ~tax_shock

\* C1: whatever non-negative amounts and shock flags the page holds, the
\* budget score, the alignment score and the stress score are each an
\* integer between 0 and 100.
C1_ScoresInRange ==
    /\ out.budget_score \in 0..100
    /\ out.alignment_score \in 0..100
    /\ out.stress_score \in 0..100

\* C2: with both shocks off, the shocked savings handed to the stress test
\* equal the normal savings, and the stress score is the score the stress
\* test gives for the normal savings.
C2_NoShockIsNormal ==
    (~bonus_shock /\ ~tax_shock) =>
        /\ QEq(out.shocked_savings, QInt(out.savings))
        /\ out.stress_score =
              calculate_stress_test_score(out.total_expenses, out.shocked_take_home,
                                          out.savings, QInt(out.savings), cmp52)

\* The grade of the call in probe, by the table of the four bands.
C3_GradeTable ==
    probe.fn = "get_resilience_grade" =>
        LET score == probe.args[1]
        IN  /\ probe.ret \in Grades
            /\ probe.ret = "A" <=> score >= 80
            /\ probe.ret = "B" <=> (65 <= score /\ score < 80)
            /\ probe.ret = "C" <=> (50 <= score /\ score < 65)
            /\ probe.ret = "D" <=> score < 50
            /\ score = 80 => probe.ret = "A"
            /\ score = 79 => probe.ret = "B"
            /\ score = 65 => probe.ret = "B"
            /\ score = 64 => probe.ret = "C"
            /\ score = 50 => probe.ret = "C"
            /\ score = 49 => probe.ret = "D"

\* Of two calls in a row, the one with the higher score has no lower grade.
C3_GradeMonotonic ==
    (/\ probe.fn = "get_resilience_grade"
     /\ probe'.fn = "get_resilience_grade"
     /\ probe.args[1] <= probe'.args[1])
        => GradeRank(probe.ret) <= GradeRank(probe'.ret)

\* C3: get_resilience_grade returns A from 80, B from 65 to 79, C from 50 to
\* 64 and D below 50, for every score; of two calls, the one with the higher
\* score never gets the lower grade.
C3_Grade == [](C3_GradeTable) /\ [][C3_GradeMonotonic]_vars

C3_Witness ==
    /\ probe.fn = "get_resilience_grade"
    /\ probe.args[1] = 79
    /\ probe.ret = "B"

\* The four warnings in their order, each with its condition.
C4_Rules(expense_ratio, savings_rate, variable_ratio, fixed_coverage_ratio) ==
    <<[on |-> expense_ratio.n > 85 * expense_ratio.d,
       msg |-> "Expense-to-income ratio is critically high."],
      [on |-> savings_rate.n < 10 * savings_rate.d,
       msg |-> "Savings are very low. Target at least 10% initially."],
      [on |-> 100 * variable_ratio.n > 35 * variable_ratio.d,
       msg |-> "High dependence on variable pay increases risk."],
      [on |-> fixed_coverage_ratio.n < fixed_coverage_ratio.d,
       msg |-> "Fixed income does not fully cover fixed needs."]>>

\* The messages of the rules whose condition holds, in order.
C4_Fired(rules) ==
    LET On(r) == r.on
        sel == SelectSeq(rules, On)
    IN  [k \in 1..Len(sel) |-> sel[k].msg]

\* C4: the recommendations are the grade's three base strings followed by
\* the warnings whose condition holds, in the order expense ratio > 85,
\* savings rate < 10, variable ratio > 0.35, fixed coverage < 1; so between
\* 3 and 7 strings, no warning twice.
C4_Recommendations ==
    probe.fn = "get_policy_recommendations_by_grade" =>
        LET a == probe.args
            ret == probe.ret
        IN  /\ Len(ret) \in 3..7
            /\ SubSeq(ret, 1, 3) = base[a[1]]
            /\ SubSeq(ret, 4, Len(ret)) = C4_Fired(C4_Rules(a[2], a[3], a[4], a[5]))
            /\ \A j, k \in 4..Len(ret) : j # k => ret[j] # ret[k]

C4_Witness ==
    /\ probe.fn = "get_policy_recommendations_by_grade"
    /\ probe.args[1] = "D"
    /\ Len(probe.ret) = 7

\* C5: with no needs and some fixed pay, the alignment score counts the
\* coverage as 1 (30 points, neither 40 nor 5) while the advisor sees a
\* fixed coverage ratio of 0 and warns that fixed income does not cover fixed
\* needs; with needs, both use fixed_pay / needs.
C5_CoverageFallbacks ==
    /\ (out.needs = 0 /\ out.fixed_pay > 0) =>
          /\ out.alignment_score =
                30 + VariablePoints(variable, out.gross)
                   + SavingsPoints(out.savings, out.gross)
          /\ QEq(out.fixed_coverage_ratio, QInt(0))
          /\ "Fixed income does not fully cover fixed needs."
                \in Range(out.recommendations)
    /\ out.needs > 0 =>
          /\ out.fixed_coverage_ratio = Q(out.fixed_pay, out.needs)
          /\ AlignmentCoverage(out.fixed_pay, out.needs) = Q(out.fixed_pay, out.needs)
          /\ out.alignment_score =
                CoveragePoints(out.fixed_coverage_ratio)
                   + VariablePoints(variable, out.gross)
                   + SavingsPoints(out.savings, out.gross)

C5_Witness ==
    /\ out.needs = 0
    /\ out.fixed_pay > 0
    /\ out.total_expenses > 0
    /\ "Fixed income does not fully cover fixed needs." \in Range(out.recommendations)

\* C6 as stated: on the all-zero page every derived ratio is 0, the stress
\* score is at its minimum (15) and the grade is D.
C6_AllZeroAsStated ==
    AllZero =>
        /\ QEq(out.savings_rate, QInt(0))
        /\ QEq(out.expense_ratio, QInt(0))
        /\ QEq(out.needs_pct, QInt(0))
        /\ QEq(out.wants_pct, QInt(0))
        /\ QEq(out.variable_ratio, QInt(0))
        /\ QEq(out.fixed_coverage_ratio, QInt(0))
        /\ out.stress_score = 15
        /\ out.resilience_grade = "D"

\* C6 as amended: on the all-zero page the savings rate, the expense ratio,
\* the needs and wants percentages and the advisor's fixed coverage ratio are
\* 0 and the variable ratio is its fallback 1; the budget score is 50, the
\* alignment score 40, the stress score 60 (not its minimum 15) and the
\* grade C.
C6_AllZero ==
    AllZero =>
        /\ QEq(out.savings_rate, QInt(0))
        /\ QEq(out.expense_ratio, QInt(0))
        /\ QEq(out.needs_pct, QInt(0))
        /\ QEq(out.wants_pct, QInt(0))
        /\ QEq(out.variable_ratio, QInt(1))
        /\ QEq(out.fixed_coverage_ratio, QInt(0))
        /\ out.budget_score = 50
        /\ out.alignment_score = 40
        /\ out.stress_score = 60
        /\ out.resilience_grade = "C"

C6_Witness ==
    /\ AllZero
    /\ period = "Yearly"
    /\ out.resilience_grade = "C"

\* C7: a Monthly budget gets the alignment score, stress score, grade and
\* recommendations of the Yearly budget with twelve times the income and
\* the expenses, against the same salary structure.
C7_PeriodNormalized ==
    period = "Monthly" =>
        LET yearly == [Widgets EXCEPT !.period = "Yearly",
                                      !.income = 12 * income,
                                      !.expenses = [c \in CategorySet |-> 12 * expenses[c]]]
        IN  \E ge09 \in Ge09(yearly) :
                LET y == Dashboard(yearly, ge09)
                IN  /\ out.alignment_score = y.alignment_score
                    /\ out.stress_score = y.stress_score
                    /\ out.resilience_grade = y.resilience_grade
                    /\ out.recommendations = y.recommendations

\* The band points of the budget score, from the amounts entered.
C8_Bands ==
    LET total == expenses["Housing (Rent / EMI)"] + expenses["Food"]
                 + expenses["Transport"] + expenses["Utilities"]
                 + expenses["Lifestyle & Entertainment"] + expenses["Others"]
        needs == expenses["Housing (Rent / EMI)"] + expenses["Food"]
                 + expenses["Utilities"]
        wants == expenses["Lifestyle & Entertainment"]
    IN  (IF 100 * total <= 70 * income THEN 30
         ELSE IF 100 * total <= 85 * income THEN 15 ELSE 5)
        + (IF 100 * needs <= 30 * income THEN 10 ELSE 0)
        + (IF 100 * wants <= 30 * income THEN 10 ELSE 0)
        + (IF 100 * (income - total) >= 20 * income THEN 10 ELSE 0)

\* The page holds the worked example.
C8_IsExample ==
    /\ income = ExampleIncome
    /\ expenses = ExampleExpenses

\* C8: for a positive income the budget score is the integer nearest to
\* min(savingsRate/20*40, 40) + 30, 15 or 5 by expense ratio (<= 70, <= 85)
\* + 10 if needsPct <= 30 + 10 if wantsPct <= 30 + 10 if savingsRate >= 20,
\* the ratios being percentages of the income; the worked example (income
\* 50000, expenses 15000, 8000, 3000, 2000, 5000, 2000) gives expenses
\* 35000, savings rate 30, expense ratio 70, needs 50, wants 10, score 90.
C8_BudgetScore ==
    /\ income > 0 =>
          LET savings == income - out.total_expenses
          IN  /\ out.total_expenses + savings = income
              /\ IF 200 * savings >= 40 * income
                 THEN out.budget_score = 40 + C8_Bands
                 ELSE 2 * Abs((out.budget_score - C8_Bands) * income - 200 * savings)
                        <= income
    /\ C8_IsExample =>
          /\ out.total_expenses = 35000
          /\ out.savings = 15000
          /\ QEq(out.savings_rate, QInt(30))
          /\ QEq(out.expense_ratio, QInt(70))
          /\ QEq(out.needs_pct, QInt(50))
          /\ QEq(out.wants_pct, QInt(10))
          /\ out.budget_score = 40 + 30 + 0 + 10 + 10

C8_Witness ==
    /\ C8_IsExample
    /\ out.budget_score = 90

\* A step that turns one shock on and changes nothing else on the page.
C9_ShockTurnedOn ==
    /\ UNCHANGED <<period, income, expenses, basic, hra, allowance, variable, pf, tax, pt>>
    /\ \/ ~bonus_shock /\ bonus_shock' /\ tax_shock' = tax_shock
       \/ ~tax_shock /\ tax_shock' /\ bonus_shock' = bonus_shock

\* After the step nothing is better than before it.
C9_NotBetter ==
    /\ QLe(out'.shocked_take_home, out.shocked_take_home)
    /\ QLe(out'.shocked_savings, out.shocked_savings)
    /\ out'.stress_score <= out.stress_score
    /\ GradeRank(out'.resilience_grade) <= GradeRank(out.resilience_grade)

\* C9: turning a shock on, the amounts and the other shock as they are,
\* never raises the shocked take-home, the shocked savings or the stress
\* score, and never betters the grade.
C9_ShocksNeverHelp == [][C9_ShockTurnedOn => C9_NotBetter]_vars

C9_Witness ==
    /\ bonus_shock /\ tax_shock
    /\ variable > 0 /\ tax > 0
    /\ out.resilience_grade = "D"
    /\ Dashboard([Widgets EXCEPT !.bonus_shock = FALSE, !.tax_shock = FALSE],
                 TRUE).resilience_grade = "A"

\* C10: the stress score is one of 15, 30, 60, 75, 80, 90, 100, and the
\* grade follows the sign of the shocked savings: D exactly when negative, C
\* exactly when zero, A or B exactly when positive, and then B exactly when
\* the normal savings are not positive or the shocked savings are less than
\* a quarter of them.
C10_SignOfShockedSavings ==
    LET ss == out.shocked_savings
    IN  /\ out.stress_score \in {15, 30, 60, 75, 80, 90, 100}
        /\ out.resilience_grade = "D" <=> ss.n < 0
        /\ out.resilience_grade = "C" <=> ss.n = 0
        /\ out.resilience_grade \in {"A", "B"} <=> ss.n > 0
        /\ ss.n > 0 =>
              (out.resilience_grade = "B"
                  <=> (out.savings <= 0 \/ 4 * ss.n < ss.d * out.savings))

C10_Witness ==
    /\ out.resilience_grade = "B"
    /\ out.savings > 0
    /\ tax_shock
    /\ out.shocked_savings.n % out.shocked_savings.d # 0

====
